---- MODULE Spec2Model ----
(***************************************************************************)
(* State-machine model of the session manager                              *)
(* (packages/driver/src/cy/commands/sessions/manager.ts): the active-      *)
(* session cache, origin resolution, storage capture and restore, and the  *)
(* cookie bridge.  The browser (storage of each origin, cookie jar), the   *)
(* automation backend, the origin registry and the cross-origin relay are  *)
(* the environment of the manager.                                         *)
(***************************************************************************)
EXTENDS Integers, Sequences, FiniteSets, TLC

\* Number of manager calls the test code starts in one behaviour.
MaxCalls == 1
\* Number of calls of a test that captures, clears and restores.
MaxTripCalls == 3
\* Number of session-cache operations in one behaviour.
MaxSessionOps == 4
\* Number of session-cache operations the test code runs while a call is
\* in flight.
MaxConcOps == 2
\* Number of setSessionData calls the test code starts without awaiting.
MaxOverlapCalls == 2

-----------------------------------------------------------------------------
(* Origins and URLs.  A URL is scheme, host and path; an origin is a URL   *)
(* with the empty path.                                                    *)

OriginA == [scheme |-> "https", host |-> "a.example", path |-> ""]
OriginB == [scheme |-> "http", host |-> "b.example", path |-> ""]
OriginC == [scheme |-> "https", host |-> "c.example", path |-> ""]
Origins == {OriginA, OriginB, OriginC}

\* The strings 'currentOrigin' and '*' used as origin specifiers.
CurrentOriginSpec == [scheme |-> "", host |-> "currentOrigin", path |-> ""]
StarSpec == [scheme |-> "", host |-> "*", path |-> ""]
\* A URL on origin C that is not in normalized form.
UrlCLogin == [scheme |-> "https", host |-> "c.example", path |-> "/login"]

\* $Location.create(url).origin: scheme and host (and port) of the URL.
LocationOrigin(url) == [scheme |-> url.scheme, host |-> url.host, path |-> ""]

\* origin.startsWith('https:') and origin.startsWith('http:')
StartsWithHttps(o) == o.scheme = "https"
StartsWithHttp(o) == o.scheme = "http"

\* The string form of an origin, as used for a property name.
OriginString(o) == o.scheme \o "://" \o o.host \o o.path

-----------------------------------------------------------------------------
(* JavaScript objects are functions from property names to values; a       *)
(* storage area (and a cookie jar) is a function from keys to strings.     *)

EmptyObj == [f \in {} |-> TRUE]
EmptyMap == [k \in {} |-> "v1"]
EmptyStore == [localStorage |-> EmptyMap, sessionStorage |-> EmptyMap]

\* _.isEmpty of an object
IsEmptyObj(obj) == DOMAIN obj = {}
\* obj.f is present and truthy (for a boolean or object property)
Truthy(obj, f) == f \in DOMAIN obj /\ obj[f] # FALSE

\* setItem appending to the value a key already has instead of replacing it
SetItemsAppend(area, value) ==
  [k \in DOMAIN area \cup DOMAIN value |->
     IF k \notin DOMAIN value THEN area[k]
     ELSE IF k \in DOMAIN area THEN area[k] \o value[k] ELSE value[k]]

\* storage.setItem(key, val) for every entry of value
SetItems(area, value) ==
  [k \in DOMAIN area \cup DOMAIN value |->
     IF k \in DOMAIN value THEN value[k] ELSE area[k]]

\* _.uniq: the first occurrence of every element, in order
RECURSIVE Uniq(_)
Uniq(s) ==
  IF Len(s) = 0 THEN <<>>
  ELSE LET r == Uniq(SubSeq(s, 1, Len(s) - 1))
           x == s[Len(s)]
       IN IF \E i \in 1..Len(r) : r[i] = x THEN r ELSE Append(r, x)

\* _.keys of the registry object: its origins in the object's key order
RECURSIVE SetToSeq(_)
SetToSeq(S) ==
  IF S = {} THEN <<>>
  ELSE LET x == CHOOSE y \in S : TRUE IN <<x>> \o SetToSeq(S \ {x})

SeqToSet(s) == {s[i] : i \in 1..Len(s)}

\* _.merge on the three levels of an origin option:
\* {origin, localStorage: {value: {k: v}, clear}, sessionStorage: {...}}
MergeMap(m, n) ==
  [k \in DOMAIN m \cup DOMAIN n |-> IF k \in DOMAIN n THEN n[k] ELSE m[k]]

MergeInstr(x, y) ==
  [g \in DOMAIN x \cup DOMAIN y |->
     IF g \notin DOMAIN y THEN x[g]
     ELSE IF g \notin DOMAIN x THEN y[g]
     ELSE IF g = "value" THEN MergeMap(x[g], y[g])
     ELSE y[g]]

MergeOpt(a, b) ==
  [f \in DOMAIN a \cup DOMAIN b |->
     IF f \notin DOMAIN b THEN a[f]
     ELSE IF f \notin DOMAIN a THEN b[f]
     ELSE IF f = "origin" THEN b[f]
     ELSE MergeInstr(a[f], b[f])]

\* _.merge({}, ...v)
RECURSIVE MergeAll(_)
MergeAll(v) ==
  IF Len(v) = 0 THEN EmptyObj
  ELSE MergeOpt(MergeAll(SubSeq(v, 1, Len(v) - 1)), v[Len(v)])

-----------------------------------------------------------------------------
(* The manager's computations, one operator per function or code block.    *)

\* An absent (undefined) origin property.
Undefined == [scheme |-> "", host |-> "", path |-> ""]
\* null for the cookies / localStorage field of a session record
Null == [k \in {"null"} |-> "null"]

\* A JavaScript value given as an argument: its type and, for an object,
\* its properties.
JsValue(type, props) == [type |-> type, props |-> props]
NoInput == JsValue("none", EmptyObj)

\* a check by typeof value === 'object', which null passes
isObjectTypeof(value) == value.type \in {"object", "null"}

\* _.isObject: an object or a function, and not null
isObject(value) == value.type \in {"object", "function"}

\* getStorage (options = {}): the default of a missing argument
defaultOptions(options) ==
  IF options.type = "undefined" THEN JsValue("object", EmptyObj) ELSE options

\* the defaults naming every origin
optsOriginStar(options) ==
  IF "origin" \in DOMAIN options.props THEN options.props.origin ELSE StarSpec

\* getStorage: _.defaults({}, options, { origin: 'currentOrigin' }).origin
optsOrigin(options) ==
  IF "origin" \in DOMAIN options.props THEN options.props.origin ELSE CurrentOriginSpec

\* getAllHtmlOrigins without the final _.uniq
getAllHtmlOriginsNoUniq(storedOrigins, currentOrigin) ==
  SetToSeq(storedOrigins) \o <<currentOrigin>>

\* getAllHtmlOrigins, from the registry's answer storedOrigins
getAllHtmlOrigins(storedOrigins, currentOrigin) ==
  Uniq(SetToSeq(storedOrigins) \o <<currentOrigin>>)

\* mapOrigins
mapOrigins(origins, storedOrigins, currentOrigin) ==
  Uniq(IF origins = StarSpec THEN getAllHtmlOrigins(storedOrigins, currentOrigin)
       ELSE IF origins = CurrentOriginSpec THEN <<currentOrigin>>
       ELSE <<LocationOrigin(origins)>>)

\* setStorage: { origin: v.origin, [kind]: _.pick(v, 'value', 'clear') }
mappedEntry(v, kind, clearAll) ==
  LET picked == [f \in DOMAIN v \cap {"value", "clear"} |-> v[f]]
      inst == IF clearAll
              THEN [f \in DOMAIN picked \cup {"clear"} |->
                      IF f = "clear" THEN TRUE ELSE picked[f]]
              ELSE picked
  IN ("origin" :> (IF "origin" \in DOMAIN v THEN v.origin ELSE Undefined))
       @@ (kind :> inst)

\* mapToCurrentOrigin keeping a given origin as written
mapToCurrentOriginRaw(v, currentOrigin) ==
  [v EXCEPT !.origin =
     IF v.origin # Undefined /\ v.origin # CurrentOriginSpec
     THEN v.origin ELSE currentOrigin]

\* setStorage: mapToCurrentOrigin
mapToCurrentOrigin(v, currentOrigin) ==
  [v EXCEPT !.origin =
     IF v.origin # Undefined /\ v.origin # CurrentOriginSpec
     THEN LocationOrigin(v.origin) ELSE currentOrigin]

mappedStorage(list, kind, clearAll, currentOrigin) ==
  [i \in 1..Len(list) |->
     mapToCurrentOrigin(mappedEntry(list[i], kind, clearAll), currentOrigin)]

\* setStorage: _.map(_.groupBy(all, 'origin'), (v) => _.merge({}, ...v))
groupAndMerge(all) ==
  LET keys == Uniq([i \in 1..Len(all) |-> all[i].origin])
  IN [i \in 1..Len(keys) |->
        MergeAll(SelectSeq(all, LAMBDA e : e.origin = keys[i]))]

\* setStorage: the storageOptions handed to _setStorageOnOrigins
storageOptions(options, clearAll, currentOrigin) ==
  groupAndMerge(
    mappedStorage(options.localStorage, "localStorage", clearAll, currentOrigin)
    \o mappedStorage(options.sessionStorage, "sessionStorage", clearAll, currentOrigin))

\* clear (when set) and then setItem for every entry of value
ApplyInstr(area, inst) ==
  SetItems(IF Truthy(inst, "clear") THEN EmptyMap ELSE area,
           IF "value" \in DOMAIN inst THEN inst.value ELSE EmptyMap)

\* _setStorageOnOrigins: _.findIndex(originOptions, { origin: currentOrigin })
currentOriginIndex(originOptions, currentOrigin) ==
  LET hits == {i \in 1..Len(originOptions) : originOptions[i].origin = currentOrigin}
  IN IF hits = {} THEN 0 ELSE CHOOSE i \in hits : \A j \in hits : i <= j

\* _setStorageOnOrigins: the synchronous write to the current origin's storage
writeCurrentOrigin(store, originOptions, currentOrigin) ==
  LET idx == currentOriginIndex(originOptions, currentOrigin)
      opts == originOptions[idx]
  IN IF idx = 0 THEN store
     ELSE [localStorage |->
             IF "localStorage" \in DOMAIN opts /\ ~IsEmptyObj(opts.localStorage)
             THEN ApplyInstr(store.localStorage, opts.localStorage)
             ELSE store.localStorage,
           sessionStorage |->
             IF "sessionStorage" \in DOMAIN opts
             THEN ApplyInstr(store.sessionStorage, opts.sessionStorage)
             ELSE store.sessionStorage]

\* _setStorageOnOrigins handing the relay the options as they came
relayOptionsNoSplice(originOptions, currentOrigin) == originOptions

\* _setStorageOnOrigins: originOptions after the splice, handed to the relay
relayOptions(originOptions, currentOrigin) ==
  LET idx == currentOriginIndex(originOptions, currentOrigin)
  IN IF idx = 0 THEN originOptions
     ELSE SubSeq(originOptions, 1, idx - 1)
          \o SubSeq(originOptions, idx + 1, Len(originOptions))

\* clearStorage: origins.map((v) => ({ origin: v, clear: true }))
clearOptions(origins) ==
  LET oo == [i \in 1..Len(origins) |-> [origin |-> origins[i], clear |-> TRUE]]
  IN [localStorage |-> oo, sessionStorage |-> oo]

\* setSessionData: _.find(list, v) with the string v as the predicate, which
\* lodash reads as a property name: an element with a truthy property v
findByProperty(list, v) ==
  \E i \in 1..Len(list) : Truthy(list[i], OriginString(v))

\* setSessionData: the _.each loop over allHtmlOrigins for one storage kind
RECURSIVE fillClear(_, _)
fillClear(list, allHtmlOrigins) ==
  IF Len(allHtmlOrigins) = 0 THEN list
  ELSE LET v == Head(allHtmlOrigins)
       IN fillClear(IF ~findByProperty(list, v)
                    THEN list \o <<[origin |-> v, clear |-> TRUE]>>
                    ELSE list,
                    Tail(allHtmlOrigins))

\* setSessionData: the options passed to setStorage
sessionStorageOptions(data, allHtmlOrigins) ==
  [localStorage |-> fillClear(data.localStorage, allHtmlOrigins),
   sessionStorage |-> fillClear(data.sessionStorage, allHtmlOrigins)]

\* pushValue pushing value.localStorage under both storage kinds
pushValueSwapped(results, origin, value) ==
  [localStorage |->
     IF ~IsEmptyObj(value.localStorage)
     THEN Append(results.localStorage, [origin |-> origin, value |-> value.localStorage])
     ELSE results.localStorage,
   sessionStorage |->
     IF ~IsEmptyObj(value.localStorage)
     THEN Append(results.sessionStorage, [origin |-> origin, value |-> value.localStorage])
     ELSE results.sessionStorage]

\* getStorage: pushValue
pushValue(results, origin, value) ==
  [localStorage |->
     IF ~IsEmptyObj(value.localStorage)
     THEN Append(results.localStorage, [origin |-> origin, value |-> value.localStorage])
     ELSE results.localStorage,
   sessionStorage |->
     IF ~IsEmptyObj(value.sessionStorage)
     THEN Append(results.sessionStorage, [origin |-> origin, value |-> value.sessionStorage])
     ELSE results.sessionStorage]

EmptyResults == [localStorage |-> <<>>, sessionStorage |-> <<>>]

\* getStorage: origins after the splice of the current origin
otherOrigins(origins, currentOrigin) ==
  SelectSeq(origins, LAMBDA v : v # currentOrigin)

\* getStorage: the results after the current origin has been captured
currentOriginResults(origins, currentOrigin, currentOriginStorage) ==
  IF \E i \in 1..Len(origins) : origins[i] = currentOrigin
  THEN pushValue(EmptyResults, currentOrigin, currentOriginStorage)
  ELSE EmptyResults

\* getStorage without the removal of http origins
relayOriginsUnfiltered(origins, currentOrigin) ==
  SelectSeq(origins, LAMBDA v : v # currentOrigin)

\* getStorage: the origins handed to the relay, after
\* _.remove(origins, (v) => v.startsWith('http:')) on an https document
relayOrigins(origins, currentOrigin) ==
  IF StartsWithHttps(currentOrigin)
  THEN SelectSeq(otherOrigins(origins, currentOrigin), LAMBDA v : ~StartsWithHttp(v))
  ELSE otherOrigins(origins, currentOrigin)

\* getStorage: postMessageResults.forEach((val) => pushValue(val[0], val[1]))
RECURSIVE pushAll(_, _)
pushAll(results, postMessageResults) ==
  IF Len(postMessageResults) = 0 THEN results
  ELSE pushAll(pushValue(results, Head(postMessageResults)[1], Head(postMessageResults)[2]),
               Tail(postMessageResults))

\* setActiveSession filling a record that is already cached instead of
\* replacing it: the cached data and hydrated flag survive
setActiveSessionMerge(currentSessions, obj) ==
  [id \in DOMAIN currentSessions \cup DOMAIN obj |->
     IF id \in DOMAIN obj
     THEN IF id \in DOMAIN currentSessions
          THEN [obj[id] EXCEPT !.cookies = currentSessions[id].cookies,
                               !.localStorage = currentSessions[id].localStorage,
                               !.hydrated = currentSessions[id].hydrated]
          ELSE obj[id]
     ELSE currentSessions[id]]

\* setActiveSession storing obj alone, without the sessions cached before
setActiveSessionReplace(currentSessions, obj) == obj

\* setActiveSession with the spread reversed: { ...obj, ...currentSessions }
setActiveSessionOldWins(currentSessions, obj) ==
  [id \in DOMAIN currentSessions \cup DOMAIN obj |->
     IF id \in DOMAIN currentSessions THEN currentSessions[id] ELSE obj[id]]

\* setActiveSession
setActiveSession(currentSessions, obj) ==
  [id \in DOMAIN currentSessions \cup DOMAIN obj |->
     IF id \in DOMAIN obj THEN obj[id] ELSE currentSessions[id]]

\* clearActiveSessions resetting the records as defineSession builds them
clearedSessionsDropData(curSessions) ==
  [id \in DOMAIN curSessions |->
     [curSessions[id] EXCEPT !.hydrated = FALSE, !.cookies = Null, !.localStorage = Null]]

\* clearActiveSessions: _.mapValues(curSessions, (v) => ({ ...v, hydrated: false }))
clearedSessions(curSessions) ==
  [id \in DOMAIN curSessions |-> [curSessions[id] EXCEPT !.hydrated = FALSE]]

\* getActiveSession: currentSessions[id], undefined (Null) for an unknown id
getActiveSession(currentSessions, id) ==
  IF id \in DOMAIN currentSessions THEN currentSessions[id] ELSE Null

\* defineSession: the new record
sess_state(options) ==
  [id |-> options.id, cookies |-> Null, localStorage |-> Null,
   setup |-> options.setup, hydrated |-> FALSE, validate |-> options.validate]

-----------------------------------------------------------------------------
(* State.                                                                  *)

VARIABLES
  currentOrigin,   \* origin of window.location
  registry,        \* origins the backend reports for 'get:rendered:html:origins'
  storage,         \* localStorage and sessionStorage of every origin
  cookies,         \* the browser's cookie jar, behind the automation backend
  activeSessions,  \* cy.state('activeSessions')
  savedSessions,   \* session records persisted by the session registry
  lastOp,          \* the last session-cache operation and its argument (for
                   \* defineSession also what the cache held under the id)
  ret,             \* what that operation returned
  nops,            \* session-cache operations so far
  calls,           \* the asynchronous manager calls in flight, by slot
  ncalls,          \* calls started so far
  budget,          \* calls the test code starts at most
  inflight,        \* how many calls the test code lets overlap
  trip             \* the last captured session data and the browser state then

vars == <<currentOrigin, registry, storage, cookies, activeSessions, savedSessions,
          lastOp, ret, nops, calls, ncalls, budget, inflight, trip>>
browserVars == <<currentOrigin, registry, storage, cookies>>
sessionVars == <<activeSessions, savedSessions, lastOp, ret, nops>>
callVars == <<calls, ncalls, budget, inflight, trip>>

Slots == {1, 2}

EmptyData == [localStorage |-> <<>>, sessionStorage |-> <<>>, cookies |-> EmptyMap]

\* A call record: the operation, where it is suspended (phase; st and ck are
\* the two branches of a Promise.all, the storage one and the cookie one),
\* whether it has rejected, and the function's local variables.
Idle ==
  [op |-> "idle", phase |-> "idle", err |-> FALSE, st |-> "none", ck |-> "none",
   input |-> NoInput,        \* getStorage's argument as given
   arg |-> Undefined,        \* getStorage's origin option / setStorage's options
   data |-> EmptyData,       \* setSessionData's data / setCookies' cookies
   origins |-> <<>>,         \* getAllHtmlOrigins' / mapOrigins' result
   options |-> <<>>,         \* setStorage's storageOptions
   relay |-> "none",         \* the relay request awaited: "get" or "set"
   batch |-> <<>>,           \* its argument (origins, or origin options)
   pending |-> {},           \* origins that have not answered yet
   active |-> {},            \* origins whose round-trip is under way
   got |-> <<>>,             \* answers of a "get" request so far
   results |-> EmptyResults, \* getStorage's results
   jar |-> EmptyMap,         \* the answer of 'get:cookies'
   done |-> {}]              \* the awaited steps completed, as <<phase, branch>>

\* setSessionData issuing 'set:cookies' once setStorage has resolved,
\* without awaiting 'clear:cookies'
AdvanceNoClearWait(c) ==
  IF c.err THEN c
  ELSE IF c.phase = "clear" /\ c.st = "done" /\ c.ck = "done"
  THEN IF c.op = "clearCurrentSessionData"
       THEN [c EXCEPT !.phase = "done"]
       ELSE [c EXCEPT !.phase = "origins", !.st = "origins", !.ck = "none"]
  ELSE IF c.phase = "set" /\ c.st = "done"
  THEN [c EXCEPT !.phase = "cookies", !.ck = "set"]
  ELSE IF c.phase = "cookies" /\ c.ck = "done"
  THEN [c EXCEPT !.phase = "done"]
  ELSE IF c.phase = "run" /\ c.st \in {"none", "done"} /\ c.ck \in {"none", "done"}
  THEN [c EXCEPT !.phase = "done"]
  ELSE c

\* The awaits that join the branches: what a call does next once a branch
\* has completed (setSessionData, clearCurrentSessionData and the
\* Promise.all of getCurrentSessionData).
Advance(c) ==
  IF c.err THEN c
  ELSE IF c.phase = "clear" /\ c.st = "done" /\ c.ck = "done"
  THEN IF c.op = "clearCurrentSessionData"
       THEN [c EXCEPT !.phase = "done"]
       ELSE [c EXCEPT !.phase = "origins", !.st = "origins", !.ck = "none"]
  ELSE IF c.phase = "set" /\ c.st = "done" /\ c.ck = "done"
  THEN [c EXCEPT !.phase = "cookies", !.ck = "set"]
  ELSE IF c.phase = "cookies" /\ c.ck = "done"
  THEN [c EXCEPT !.phase = "done"]
  ELSE IF c.phase = "run" /\ c.st \in {"none", "done"} /\ c.ck \in {"none", "done"}
  THEN [c EXCEPT !.phase = "done"]
  ELSE c

\* a rejected request taken as answered: the call goes on without its answer
RejectedIgnored(c, b) ==
  IF b = "st" THEN [c EXCEPT !.st = "done"] ELSE [c EXCEPT !.ck = "done"]

\* a rejection of the storage branch caught where it is awaited: the call
\* goes on with the results it has
RejectedSwallowed(c, b) ==
  IF b = "st"
  THEN [c EXCEPT !.st = "done", !.relay = "none", !.batch = <<>>, !.pending = {},
                 !.active = {}, !.got = <<>>]
  ELSE [c EXCEPT !.err = TRUE, !.ck = "failed"]

\* A request of the call's branch b (st or ck) rejects, and so does the
\* call; the other branch of a Promise.all runs on.
Rejected(c, b) ==
  IF b = "st"
  THEN [Idle EXCEPT !.op = c.op, !.phase = c.phase, !.err = TRUE, !.st = "failed",
                    !.ck = c.ck, !.input = c.input, !.arg = c.arg, !.data = c.data,
                    !.jar = c.jar, !.done = c.done]
  ELSE [c EXCEPT !.err = TRUE, !.ck = "failed"]

\* setStorage from its call to the await in _setStorageOnOrigins: the call
\* record once the current origin is written and the relay request is issued
setStorageCall(c, options, clearAll, cur) ==
  LET so == storageOptions(options, clearAll, cur)
      rest == relayOptions(so, cur)
  IN IF Len(rest) = 0
     THEN [c EXCEPT !.options = so, !.st = "done",
                    !.done = @ \cup {<<c.phase, "st">>}]
     ELSE [c EXCEPT !.options = so, !.st = "relay", !.relay = "set",
                    !.batch = rest,
                    !.pending = {rest[i].origin : i \in 1..Len(rest)}]

\* the write to the current origin put off until the relay has answered
setStorageStoreDeferred(store, options, clearAll, cur) == store

\* the current origin's storage after that part of setStorage
setStorageStore(store, options, clearAll, cur) ==
  writeCurrentOrigin(store, storageOptions(options, clearAll, cur), cur)

\* getStorage from mapOrigins' answer to the await of the relay
getStorageCall(c, origins, cur, store) ==
  LET res == currentOriginResults(origins, cur, store)
      batch == relayOrigins(origins, cur)
  IN IF Len(otherOrigins(origins, cur)) = 0
     THEN [c EXCEPT !.origins = origins, !.results = res, !.st = "done"]
     ELSE [c EXCEPT !.origins = origins, !.results = res, !.st = "relay",
                    !.relay = "get", !.batch = batch, !.pending = SeqToSet(batch)]

-----------------------------------------------------------------------------
(* The environment: the relay's hidden frame and the automation backend.   *)

\* The frame on a target origin applies one origin option to that origin's
\* storage: for each storage kind given, wipe it when clear is set, then
\* apply the entries of value.
FrameWrite(store, opts) ==
  [kind \in {"localStorage", "sessionStorage"} |->
     IF kind \in DOMAIN opts THEN ApplyInstr(store[kind], opts[kind]) ELSE store[kind]]

\* The frame's answer to a read: the origin and its two storage areas.
FrameRead(o, store) == <<o, store>>

\* 'clear:cookies' with a list removes the cookies of the list.
ClearedJar(jar, list) == [n \in DOMAIN jar \ DOMAIN list |-> jar[n]]

-----------------------------------------------------------------------------
(* Initial states and inputs.                                              *)

K1 == [k \in {"k1"} |-> "v1"]
K2 == [k \in {"k2"} |-> "v2"]

StoreInputs ==
  {EmptyStore, [localStorage |-> K1, sessionStorage |-> EmptyMap]}

\* the storage of the origins before the test's first call
StorageInputs ==
  {[o \in Origins |-> IF o = OriginC /\ full THEN [localStorage |-> K1, sessionStorage |-> K2]
                      ELSE f[o]] : f \in [Origins -> StoreInputs], full \in BOOLEAN}

JarInputs == {EmptyMap, [n \in {"sid"} |-> "v1"]}

\* entries of the lists given to setStorage and setSessionData
EntryInputs ==
  {[value |-> K2],
   [origin |-> CurrentOriginSpec, value |-> K2],
   [origin |-> UrlCLogin, value |-> K2],
   [origin |-> OriginC, value |-> K2, clear |-> TRUE],
   [origin |-> OriginB, clear |-> TRUE]}

ListInputs == {<<>>} \cup {<<e>> : e \in EntryInputs}

OptionInputs ==
  {[localStorage |-> l, sessionStorage |-> x] : l \in ListInputs, x \in ListInputs}

DataInputs ==
  {[localStorage |-> l, sessionStorage |-> x, cookies |-> j] :
     l \in {<<>>, <<[origin |-> OriginC, value |-> K2]>>},
     x \in {<<>>, <<[origin |-> OriginA, value |-> K2]>>},
     j \in {[n \in {"tok"} |-> "v2"]}}

\* arguments given to getStorage
GetStorageInputs ==
  {JsValue("undefined", EmptyObj), JsValue("null", EmptyObj),
   JsValue("string", EmptyObj), JsValue("number", EmptyObj),
   JsValue("object", EmptyObj)}
  \cup {JsValue("object", [p \in {"origin"} |-> origin]) :
          origin \in {CurrentOriginSpec, StarSpec, UrlCLogin}}

NoTrip ==
  [stage |-> "none", data |-> EmptyData,
   storage |-> [o \in Origins |-> EmptyStore], cookies |-> EmptyMap]

Init ==
  /\ currentOrigin \in {OriginA, OriginB}
  /\ registry \in SUBSET Origins
  /\ storage \in StorageInputs
  /\ cookies \in JarInputs
  /\ activeSessions = EmptyObj
  /\ savedSessions = {}
  /\ lastOp = [name |-> "none", id |-> ""]
  /\ ret = Null
  /\ nops = 0
  /\ calls = [s \in Slots |-> Idle]
  /\ ncalls = 0
  /\ budget = MaxCalls
  /\ inflight = 1
  /\ trip = [NoTrip EXCEPT !.stage = "off"]

-----------------------------------------------------------------------------
(* The asynchronous operations.  A Start action is the call up to its     *)
(* first await; every other action is the answer to an awaited request    *)
(* and the code that runs on it, up to the next await.                    *)

\* The test code may start a call in slot s.
CanStart(s) ==
  /\ calls[s].op = "idle"
  /\ ncalls < budget
  /\ s <= inflight
  /\ \A t \in Slots : t < s => calls[t].op # "idle"

\* Bookkeeping of the capture / clear / restore sequence at a call's start.
TripAtStart(op, data) ==
  IF trip.stage = "off" THEN trip
  ELSE IF op = "clearCurrentSessionData" /\ trip.stage = "captured"
  THEN [trip EXCEPT !.stage = "clearing"]
  ELSE IF op = "setSessionData" /\ trip.stage = "cleared" /\ data = trip.data
  THEN [trip EXCEPT !.stage = "restoring"]
  ELSE IF op = "getCurrentSessionData"
  THEN [NoTrip EXCEPT !.stage = "capturing"]
  ELSE NoTrip

Begin(s, op, data, c) ==
  /\ CanStart(s)
  /\ calls' = [calls EXCEPT ![s] = Advance([c EXCEPT !.op = op])]
  /\ ncalls' = ncalls + 1
  /\ trip' = TripAtStart(op, data)
  /\ UNCHANGED <<budget, inflight, currentOrigin, registry, cookies>>
  /\ UNCHANGED sessionVars

\* setStorage(options, clearAll)
StartSetStorage(s) ==
  \E options \in OptionInputs, clearAll \in BOOLEAN :
    /\ Begin(s, "setStorage", EmptyData,
             setStorageCall([Idle EXCEPT !.phase = "run", !.arg = options],
                            options, clearAll, currentOrigin))
    /\ storage' = [storage EXCEPT ![currentOrigin] =
                     setStorageStore(@, options, clearAll, currentOrigin)]

\* getStorage from its call to its first await, or to the error it throws
getStorageStart(options, cur, store) ==
  LET o == defaultOptions(options)
      c == [Idle EXCEPT !.phase = "run", !.input = options]
  IN IF ~isObject(o) THEN [c EXCEPT !.err = TRUE]
     ELSE LET origin == optsOrigin(o)
          IN IF origin = StarSpec
             THEN [c EXCEPT !.arg = origin, !.st = "origins"]
             ELSE getStorageCall([c EXCEPT !.arg = origin],
                                 mapOrigins(origin, {}, cur), cur, store)

\* getStorage(options)
StartGetStorage(s) ==
  \E options \in GetStorageInputs :
    /\ Begin(s, "getStorage", EmptyData,
             getStorageStart(options, currentOrigin, storage[currentOrigin]))
    /\ UNCHANGED storage

\* clearStorage()
StartClearStorage(s) ==
  /\ Begin(s, "clearStorage", EmptyData, [Idle EXCEPT !.phase = "run", !.st = "origins"])
  /\ UNCHANGED storage

\* getCookies()
StartGetCookies(s) ==
  /\ Begin(s, "getCookies", EmptyData, [Idle EXCEPT !.phase = "run", !.ck = "get"])
  /\ UNCHANGED storage

\* setCookies(cookies)
StartSetCookies(s) ==
  \E j \in JarInputs :
    /\ Begin(s, "setCookies", EmptyData,
             [Idle EXCEPT !.phase = "cookies", !.ck = "set", !.data.cookies = j])
    /\ UNCHANGED storage

\* clearCookies()
StartClearCookies(s) ==
  /\ Begin(s, "clearCookies", EmptyData, [Idle EXCEPT !.phase = "run", !.ck = "get"])
  /\ UNCHANGED storage

\* getCurrentSessionData()
StartGetCurrentSessionData(s) ==
  /\ Begin(s, "getCurrentSessionData", EmptyData,
           [Idle EXCEPT !.phase = "run", !.arg = StarSpec, !.st = "origins", !.ck = "get"])
  /\ UNCHANGED storage

\* clearCurrentSessionData(): the two clear() calls, then clearStorage() and
\* clearCookies() up to their first awaits
clearCurrentSessionDataCall(c) ==
  [c EXCEPT !.phase = "clear", !.st = "origins", !.ck = "get",
            !.done = @ \cup {<<"clear", "wipe">>}]

StartClearCurrentSessionData(s) ==
  /\ Begin(s, "clearCurrentSessionData", EmptyData, clearCurrentSessionDataCall(Idle))
  /\ storage' = [storage EXCEPT ![currentOrigin] = EmptyStore]

\* setSessionData(data)
setSessionDataCall(c, data) ==
  clearCurrentSessionDataCall([c EXCEPT !.data = data])

StartSetSessionData(s) ==
  \E data \in DataInputs :
    /\ Begin(s, "setSessionData", data, setSessionDataCall(Idle, data))
    /\ storage' = [storage EXCEPT ![currentOrigin] = EmptyStore]


\* The backend answers 'get:rendered:html:origins'; the caller of
\* getAllHtmlOrigins (getStorage through mapOrigins, clearStorage, or
\* setSessionData) runs on to its next await.
onOrigins(c, storedOrigins, cur, store) ==
  LET all == getAllHtmlOrigins(storedOrigins, cur)
  IN IF c.op \in {"getStorage", "getCurrentSessionData"}
     THEN getStorageCall(c, mapOrigins(StarSpec, storedOrigins, cur), cur, store)
     ELSE IF c.phase = "origins"
     THEN setStorageCall([c EXCEPT !.origins = all, !.phase = "set", !.ck = "clearAll"],
                         sessionStorageOptions(c.data, all), FALSE, cur)
     ELSE setStorageCall([c EXCEPT !.origins = all], clearOptions(all), FALSE, cur)

onOriginsStore(c, storedOrigins, cur, store) ==
  LET all == getAllHtmlOrigins(storedOrigins, cur)
  IN IF c.op \in {"getStorage", "getCurrentSessionData"} THEN store
     ELSE IF c.phase = "origins"
     THEN setStorageStore(store, sessionStorageOptions(c.data, all), FALSE, cur)
     ELSE setStorageStore(store, clearOptions(all), FALSE, cur)

OriginsRespond(s) ==
  /\ calls[s].st = "origins"
  /\ calls' = [calls EXCEPT ![s] =
       Advance(onOrigins(calls[s], registry, currentOrigin, storage[currentOrigin]))]
  /\ storage' = [storage EXCEPT ![currentOrigin] =
       onOriginsStore(calls[s], registry, currentOrigin, @)]
  /\ UNCHANGED <<currentOrigin, registry, cookies, ncalls, budget, inflight, trip>>
  /\ UNCHANGED sessionVars

\* The backend rejects 'get:rendered:html:origins'.
OriginsReject(s) ==
  /\ calls[s].st = "origins"
  /\ calls' = [calls EXCEPT ![s] = Rejected(calls[s], "st")]
  /\ UNCHANGED <<ncalls, budget, inflight, trip>>
  /\ UNCHANGED browserVars
  /\ UNCHANGED sessionVars

\* One origin of the relay request answers: its frame has written the
\* origin option, or has read the origin's storage.
RelayAnswer(s) ==
  \E o \in calls[s].pending :
    /\ calls[s].st = "relay"
    /\ IF calls[s].relay = "set"
       THEN LET i == CHOOSE j \in 1..Len(calls[s].batch) : calls[s].batch[j].origin = o
            IN /\ storage' = [storage EXCEPT ![o] = FrameWrite(@, calls[s].batch[i])]
               /\ calls' = [calls EXCEPT ![s].pending = @ \ {o}]
       ELSE /\ storage' = storage
            /\ calls' = [calls EXCEPT ![s].pending = @ \ {o},
                                      ![s].got = Append(@, FrameRead(o, storage[o]))]
    /\ UNCHANGED <<currentOrigin, registry, cookies, ncalls, budget, inflight, trip>>
    /\ UNCHANGED sessionVars

\* Every origin has answered: the relay's promise resolves and the awaiting
\* function runs on (getStorage pushes the answers into its results).
onRelay(c) ==
  [c EXCEPT !.st = "done", !.relay = "none", !.batch = <<>>, !.got = <<>>,
            !.results = IF c.relay = "get" THEN pushAll(@, c.got) ELSE @,
            !.done = @ \cup {<<c.phase, "st">>}]

RelayResolve(s) ==
  /\ calls[s].st = "relay"
  /\ calls[s].pending = {}
  /\ calls' = [calls EXCEPT ![s] = Advance(onRelay(calls[s]))]
  /\ UNCHANGED <<ncalls, budget, inflight, trip>>
  /\ UNCHANGED browserVars
  /\ UNCHANGED sessionVars

\* Some origin never answers: the relay's bounded wait ends and the call rejects.
RelayTimeout(s) ==
  /\ calls[s].st = "relay"
  /\ calls[s].pending # {}
  /\ calls' = [calls EXCEPT ![s] = Rejected(calls[s], "st")]
  /\ UNCHANGED <<ncalls, budget, inflight, trip>>
  /\ UNCHANGED browserVars
  /\ UNCHANGED sessionVars

\* The automation backend answers 'get:cookies'; clearCookies goes on to
\* 'clear:cookies' with the answer.
onGetCookies(c, jar) ==
  IF c.op \in {"getCookies", "getCurrentSessionData"}
  THEN [c EXCEPT !.jar = jar, !.ck = "done"]
  ELSE [c EXCEPT !.jar = jar, !.ck = "clear"]

GetCookiesRespond(s) ==
  /\ calls[s].ck = "get"
  /\ calls' = [calls EXCEPT ![s] = Advance(onGetCookies(calls[s], cookies))]
  /\ UNCHANGED <<ncalls, budget, inflight, trip>>
  /\ UNCHANGED browserVars
  /\ UNCHANGED sessionVars

\* The automation backend performs 'clear:cookies' (with the list that
\* clearCookies read, or with null in setSessionData) and answers.
ClearCookiesRespond(s) ==
  /\ calls[s].ck \in {"clear", "clearAll"}
  /\ cookies' = IF calls[s].ck = "clearAll" THEN EmptyMap
                ELSE ClearedJar(cookies, calls[s].jar)
  /\ calls' = [calls EXCEPT ![s] =
       Advance([calls[s] EXCEPT !.ck = "done",
                                !.done = @ \cup {<<calls[s].phase, "ck">>}])]
  /\ UNCHANGED <<currentOrigin, registry, storage, ncalls, budget, inflight, trip>>
  /\ UNCHANGED sessionVars

\* The automation backend performs 'set:cookies' and answers.
SetCookiesRespond(s) ==
  /\ calls[s].ck = "set"
  /\ cookies' = SetItems(cookies, calls[s].data.cookies)
  /\ calls' = [calls EXCEPT ![s] = Advance([calls[s] EXCEPT !.ck = "done"])]
  /\ UNCHANGED <<currentOrigin, registry, storage, ncalls, budget, inflight, trip>>
  /\ UNCHANGED sessionVars

\* The automation backend rejects a cookie request.
CookiesReject(s) ==
  /\ calls[s].ck \in {"get", "clear", "clearAll", "set"}
  /\ calls' = [calls EXCEPT ![s] = Rejected(calls[s], "ck")]
  /\ UNCHANGED <<ncalls, budget, inflight, trip>>
  /\ UNCHANGED browserVars
  /\ UNCHANGED sessionVars

\* The call has settled and nothing of it is in flight: the test code takes
\* its result (getCurrentSessionData's is { ...storage, cookies }).
Settled(c) ==
  /\ c.op # "idle"
  /\ c.phase = "done" \/ c.err
  /\ c.st \notin {"origins", "relay", "clearSession"}
  /\ c.ck \notin {"get", "clear", "clearAll", "set"}

sessionData(c) ==
  [localStorage |-> c.results.localStorage,
   sessionStorage |-> c.results.sessionStorage,
   cookies |-> c.jar]

TripAtReturn(c) ==
  IF trip.stage = "off" THEN trip
  ELSE IF c.err THEN NoTrip
  ELSE IF trip.stage = "capturing"
  THEN [stage |-> "captured", data |-> sessionData(c),
        storage |-> storage, cookies |-> cookies]
  ELSE IF trip.stage = "clearing"
  THEN [trip EXCEPT !.stage = "cleared"]
  ELSE NoTrip

Return(s) ==
  /\ Settled(calls[s])
  /\ calls' = [calls EXCEPT ![s] = Idle]
  /\ trip' = TripAtReturn(calls[s])
  /\ UNCHANGED <<ncalls, budget, inflight>>
  /\ UNCHANGED browserVars
  /\ UNCHANGED sessionVars

-----------------------------------------------------------------------------
(* The active-session cache.                                               *)

SessionIds == {"s1", "s2"}
OptionsInputs ==
  [id : SessionIds, setup : {"setupA", "setupB"}, validate : {"validateA", "validateB"}]

CanOperate == nops < MaxSessionOps

\* defineSession(options)
DefineSession ==
  \E options \in OptionsInputs :
    /\ CanOperate
    /\ activeSessions' = setActiveSession(activeSessions,
                                          (options.id :> sess_state(options)))
    /\ ret' = sess_state(options)
    /\ lastOp' = [name |-> "defineSession", id |-> options.id,
                   before |-> getActiveSession(activeSessions, options.id)]
    /\ nops' = nops + 1
    /\ UNCHANGED savedSessions
    /\ UNCHANGED browserVars
    /\ UNCHANGED callVars

\* The session command, outside the manager, marks a defined session as
\* applied to the browser once its setup has run: it stores the session's
\* data in the record and sets hydrated.
Hydrate ==
  \E id \in DOMAIN activeSessions :
    /\ CanOperate
    /\ ~activeSessions[id].hydrated
    /\ activeSessions' = [activeSessions EXCEPT
                            ![id].hydrated = TRUE,
                            ![id].cookies = [n \in {"sid"} |-> "v1"],
                            ![id].localStorage = K1]
    /\ ret' = Null
    /\ lastOp' = [name |-> "hydrate", id |-> id]
    /\ nops' = nops + 1
    /\ UNCHANGED savedSessions
    /\ UNCHANGED browserVars
    /\ UNCHANGED callVars

\* clearActiveSessions()
ClearActiveSessions ==
  /\ CanOperate
  /\ activeSessions' = clearedSessions(activeSessions)
  /\ ret' = Null
  /\ lastOp' = [name |-> "clearActiveSessions", id |-> ""]
  /\ nops' = nops + 1
  /\ UNCHANGED savedSessions
  /\ UNCHANGED browserVars
  /\ UNCHANGED callVars

\* clearAllSavedSessions(): clearActiveSessions(), then the request
\* 'clear:session' to the backend, whose promise it returns
clearAllSavedSessionsCall(c) ==
  [c EXCEPT !.op = "clearAllSavedSessions", !.phase = "run", !.st = "clearSession"]

StartClearAllSavedSessions(s) ==
  /\ CanOperate
  /\ calls[s].op = "idle"
  /\ s <= inflight
  /\ activeSessions' = clearedSessions(activeSessions)
  /\ calls' = [calls EXCEPT ![s] = clearAllSavedSessionsCall(Idle)]
  /\ ret' = Null
  /\ lastOp' = [name |-> "clearAllSavedSessions", id |-> ""]
  /\ nops' = nops + 1
  /\ UNCHANGED <<savedSessions, ncalls, budget, inflight, trip>>
  /\ UNCHANGED browserVars

\* The session registry performs 'clear:session' with null: it deletes
\* every persisted session record.
ClearSessionRespond(s) ==
  /\ calls[s].st = "clearSession"
  /\ savedSessions' = {}
  /\ calls' = [calls EXCEPT ![s] = Advance([calls[s] EXCEPT !.st = "done"])]
  /\ UNCHANGED <<activeSessions, lastOp, ret, nops, ncalls, budget, inflight, trip>>
  /\ UNCHANGED browserVars

\* The session registry rejects 'clear:session'.
ClearSessionReject(s) ==
  /\ calls[s].st = "clearSession"
  /\ calls' = [calls EXCEPT ![s] = Rejected(calls[s], "st")]
  /\ UNCHANGED <<ncalls, budget, inflight, trip>>
  /\ UNCHANGED browserVars
  /\ UNCHANGED sessionVars

Next ==
  \E s \in Slots :
    \/ StartSetStorage(s)
    \/ StartGetStorage(s)
    \/ StartClearStorage(s)
    \/ StartGetCookies(s)
    \/ StartSetCookies(s)
    \/ StartClearCookies(s)
    \/ StartGetCurrentSessionData(s)
    \/ StartClearCurrentSessionData(s)
    \/ StartSetSessionData(s)
    \/ OriginsRespond(s)
    \/ OriginsReject(s)
    \/ RelayAnswer(s)
    \/ RelayResolve(s)
    \/ RelayTimeout(s)
    \/ GetCookiesRespond(s)
    \/ ClearCookiesRespond(s)
    \/ SetCookiesRespond(s)
    \/ CookiesReject(s)
    \/ Return(s)

Spec == Init /\ [][Next]_vars

\* A test file that defines, applies and clears sessions; the registry
\* holds records persisted by earlier test files.
SessionInit ==
  /\ currentOrigin = OriginA
  /\ registry = {}
  /\ storage = [o \in Origins |-> EmptyStore]
  /\ cookies = EmptyMap
  /\ activeSessions = EmptyObj
  /\ savedSessions \in SUBSET SessionIds
  /\ lastOp = [name |-> "none", id |-> ""]
  /\ ret = Null
  /\ nops = 0
  /\ calls = [s \in Slots |-> Idle]
  /\ ncalls = 0
  /\ budget = 0
  /\ inflight = 1
  /\ trip = [NoTrip EXCEPT !.stage = "off"]

SessionNext ==
  \/ DefineSession
  \/ Hydrate
  \/ ClearActiveSessions
  \/ \E s \in Slots :
       \/ StartClearAllSavedSessions(s)
       \/ ClearSessionRespond(s)
       \/ ClearSessionReject(s)
       \/ Return(s)

SessionSpec == SessionInit /\ [][SessionNext]_vars

\* A test that captures the session data, clears the browser and restores
\* the captured data: getCurrentSessionData(), clearCurrentSessionData(),
\* setSessionData(captured), each started when the one before has returned.
TripInit ==
  /\ currentOrigin \in {OriginA, OriginB}
  /\ registry \in SUBSET Origins
  /\ storage \in StorageInputs
  /\ cookies \in JarInputs
  /\ activeSessions = EmptyObj
  /\ savedSessions = {}
  /\ lastOp = [name |-> "none", id |-> ""]
  /\ ret = Null
  /\ nops = 0
  /\ calls = [s \in Slots |-> Idle]
  /\ ncalls = 0
  /\ budget = MaxTripCalls
  /\ inflight = 1
  /\ trip = NoTrip

Capture(s) ==
  /\ trip.stage = "none"
  /\ StartGetCurrentSessionData(s)

Clear(s) ==
  /\ trip.stage = "captured"
  /\ StartClearCurrentSessionData(s)

Restore(s) ==
  /\ trip.stage = "cleared"
  /\ Begin(s, "setSessionData", trip.data, setSessionDataCall(Idle, trip.data))
  /\ storage' = [storage EXCEPT ![currentOrigin] = EmptyStore]

TripNext ==
  \E s \in Slots :
    \/ Capture(s)
    \/ Clear(s)
    \/ Restore(s)
    \/ OriginsRespond(s)
    \/ OriginsReject(s)
    \/ RelayAnswer(s)
    \/ RelayResolve(s)
    \/ RelayTimeout(s)
    \/ GetCookiesRespond(s)
    \/ ClearCookiesRespond(s)
    \/ SetCookiesRespond(s)
    \/ CookiesReject(s)
    \/ Return(s)

TripSpec == TripInit /\ [][TripNext]_vars

\* A test that applies the same storage instructions twice:
\* setStorage(options, clearAll), and the same call again once the first
\* has returned.  trip holds the arguments and, after the first call, the
\* storage it left.
TwiceInit ==
  /\ currentOrigin \in {OriginA, OriginB}
  /\ registry = {}
  /\ storage \in StorageInputs
  /\ cookies = EmptyMap
  /\ activeSessions = EmptyObj
  /\ savedSessions = {}
  /\ lastOp = [name |-> "none", id |-> ""]
  /\ ret = Null
  /\ nops = 0
  /\ calls = [s \in Slots |-> Idle]
  /\ ncalls = 0
  /\ budget = MaxTripCalls
  /\ inflight = 1
  /\ trip = [NoTrip EXCEPT !.stage = "start"]

\* setStorage(options, clearAll) up to its await
setStorageStart(s, options, clearAll) ==
  /\ CanStart(s)
  /\ calls' = [calls EXCEPT ![s] =
       Advance(setStorageCall([Idle EXCEPT !.op = "setStorage", !.phase = "run",
                                           !.arg = options],
                              options, clearAll, currentOrigin))]
  /\ storage' = [storage EXCEPT ![currentOrigin] =
                   setStorageStore(@, options, clearAll, currentOrigin)]
  /\ ncalls' = ncalls + 1
  /\ UNCHANGED <<budget, inflight, currentOrigin, registry, cookies>>
  /\ UNCHANGED sessionVars

First(s) ==
  \E options \in OptionInputs, clearAll \in BOOLEAN :
    /\ trip.stage = "start"
    /\ setStorageStart(s, options, clearAll)
    /\ trip' = [stage |-> "first", data |-> options, clearAll |-> clearAll,
                storage |-> storage, cookies |-> cookies]

Second(s) ==
  /\ trip.stage = "once"
  /\ setStorageStart(s, trip.data, trip.clearAll)
  /\ trip' = [trip EXCEPT !.stage = "second"]

\* The test code takes the result of a settled call; after the first call
\* has resolved it notes the storage of every origin.
TwiceReturn(s) ==
  /\ Settled(calls[s])
  /\ calls' = [calls EXCEPT ![s] = Idle]
  /\ trip' = IF trip.stage = "first" /\ ~calls[s].err
             THEN [trip EXCEPT !.stage = "once", !.storage = storage]
             ELSE [trip EXCEPT !.stage = "end"]
  /\ UNCHANGED <<ncalls, budget, inflight>>
  /\ UNCHANGED browserVars
  /\ UNCHANGED sessionVars

TwiceNext ==
  \E s \in Slots :
    \/ First(s)
    \/ Second(s)
    \/ RelayAnswer(s)
    \/ RelayResolve(s)
    \/ RelayTimeout(s)
    \/ TwiceReturn(s)

TwiceSpec == TwiceInit /\ [][TwiceNext]_vars

-----------------------------------------------------------------------------
(* The relay, one round-trip at a time (RelaySpec).  A round-trip to an    *)
(* origin begins when the relay loads the hidden frame on it, for an https *)
(* origin after the one-shot request to intercept the next request to that *)
(* origin; it ends with the frame's response.                              *)

\* a round-trip to one more origin of the batch without regard to the
\* interception claim
RelayBeginAny(s) ==
  \E o \in calls[s].pending \ calls[s].active :
    /\ calls[s].st = "relay"
    /\ calls' = [calls EXCEPT ![s].active = @ \cup {o}]
    /\ UNCHANGED <<ncalls, budget, inflight, trip>>
    /\ UNCHANGED browserVars
    /\ UNCHANGED sessionVars

\* The relay begins the round-trip to one more origin of the batch; to an
\* https origin only when no interception claim is outstanding.
RelayBegin(s) ==
  \E o \in calls[s].pending \ calls[s].active :
    /\ calls[s].st = "relay"
    /\ StartsWithHttps(o) => \A a \in calls[s].active : ~StartsWithHttps(a)
    /\ calls' = [calls EXCEPT ![s].active = @ \cup {o}]
    /\ UNCHANGED <<ncalls, budget, inflight, trip>>
    /\ UNCHANGED browserVars
    /\ UNCHANGED sessionVars

\* The frame on an origin answers: it has written the origin option, or
\* read the origin's storage, and the round-trip is over.
RelayEnd(s) ==
  \E o \in calls[s].active :
    /\ calls[s].st = "relay"
    /\ IF calls[s].relay = "set"
       THEN LET i == CHOOSE j \in 1..Len(calls[s].batch) : calls[s].batch[j].origin = o
            IN /\ storage' = [storage EXCEPT ![o] = FrameWrite(@, calls[s].batch[i])]
               /\ calls' = [calls EXCEPT ![s].pending = @ \ {o},
                                         ![s].active = @ \ {o}]
       ELSE /\ storage' = storage
            /\ calls' = [calls EXCEPT ![s].pending = @ \ {o},
                                      ![s].active = @ \ {o},
                                      ![s].got = Append(@, FrameRead(o, storage[o]))]
    /\ UNCHANGED <<currentOrigin, registry, cookies, ncalls, budget, inflight, trip>>
    /\ UNCHANGED sessionVars

RelayInit ==
  /\ currentOrigin \in {OriginA, OriginB}
  /\ registry \in SUBSET Origins
  /\ storage \in {[o \in Origins |-> EmptyStore],
                  [o \in Origins |-> [localStorage |-> K1, sessionStorage |-> EmptyMap]]}
  /\ cookies = EmptyMap
  /\ activeSessions = EmptyObj
  /\ savedSessions = {}
  /\ lastOp = [name |-> "none", id |-> ""]
  /\ ret = Null
  /\ nops = 0
  /\ calls = [s \in Slots |-> Idle]
  /\ ncalls = 0
  /\ budget = MaxCalls
  /\ inflight = 1
  /\ trip = [NoTrip EXCEPT !.stage = "off"]

RelayNext ==
  \E s \in Slots :
    \/ StartGetStorage(s)
    \/ StartClearStorage(s)
    \/ OriginsRespond(s)
    \/ OriginsReject(s)
    \/ RelayBegin(s)
    \/ RelayEnd(s)
    \/ RelayResolve(s)
    \/ RelayTimeout(s)
    \/ Return(s)

RelaySpec == RelayInit /\ [][RelayNext]_vars

-----------------------------------------------------------------------------
(* Session-cache operations while an asynchronous call is suspended at a   *)
(* backend or relay await (ConcSpec): the test code runs defineSession and *)
(* clearActiveSessions between the steps of the call.                      *)

ConcInit ==
  /\ currentOrigin = OriginA
  /\ registry \in {{}, {OriginB, OriginC}}
  /\ storage = [o \in Origins |-> [localStorage |-> K1, sessionStorage |-> EmptyMap]]
  /\ cookies = [n \in {"sid"} |-> "v1"]
  /\ activeSessions = EmptyObj
  /\ savedSessions = {}
  /\ lastOp = [name |-> "none", id |-> ""]
  /\ ret = Null
  /\ nops = 0
  /\ calls = [s \in Slots |-> Idle]
  /\ ncalls = 0
  /\ budget = MaxCalls
  /\ inflight = 1
  /\ trip = [NoTrip EXCEPT !.stage = "off"]

\* a call is suspended at an await
InFlight == \E s \in Slots : calls[s].op # "idle" /\ ~Settled(calls[s])

\* the sessions of this test share their setup and validate functions
ConcDefineSession ==
  /\ InFlight
  /\ nops < MaxConcOps
  /\ DefineSession
  /\ ret'.setup = "setupA"
  /\ ret'.validate = "validateA"

ConcClearActiveSessions ==
  /\ InFlight
  /\ nops < MaxConcOps
  /\ ClearActiveSessions

ConcNext ==
  \/ ConcDefineSession
  \/ ConcClearActiveSessions
  \/ \E s \in Slots :
       \/ StartSetStorage(s)
       \/ StartGetStorage(s)
       \/ StartGetCurrentSessionData(s)
       \/ StartClearCurrentSessionData(s)
       \/ StartSetSessionData(s)
       \/ OriginsRespond(s)
       \/ OriginsReject(s)
       \/ RelayAnswer(s)
       \/ RelayResolve(s)
       \/ RelayTimeout(s)
       \/ GetCookiesRespond(s)
       \/ ClearCookiesRespond(s)
       \/ SetCookiesRespond(s)
       \/ CookiesReject(s)
       \/ Return(s)

ConcSpec == ConcInit /\ [][ConcNext]_vars

-----------------------------------------------------------------------------
(* Two restores that overlap (OverlapSpec): the test code calls            *)
(* setSessionData a second time while the first call is suspended at one  *)
(* of its awaits.  The registry knows every origin that holds storage.    *)

\* the data of the two sessions: each has its own cookie and its own storage
OverlapData ==
  {[localStorage |-> <<[origin |-> OriginC, value |-> K1]>>,
    sessionStorage |-> <<>>,
    cookies |-> [n \in {"sid"} |-> "v1"]],
   [localStorage |-> <<>>,
    sessionStorage |-> <<[origin |-> OriginA, value |-> K2]>>,
    cookies |-> [n \in {"tok"} |-> "v2"]]}

OverlapInit ==
  /\ currentOrigin = OriginA
  /\ registry = {OriginA, OriginC}
  /\ storage \in {[o \in Origins |-> EmptyStore],
                  [o \in Origins |-> IF o = OriginC
                                     THEN [localStorage |-> K2, sessionStorage |-> EmptyMap]
                                     ELSE EmptyStore]}
  /\ cookies \in {EmptyMap, [n \in {"old"} |-> "v0"]}
  /\ activeSessions = EmptyObj
  /\ savedSessions = {}
  /\ lastOp = [name |-> "none", id |-> ""]
  /\ ret = Null
  /\ nops = 0
  /\ calls = [s \in Slots |-> Idle]
  /\ ncalls = 0
  /\ budget = MaxOverlapCalls
  /\ inflight = 2
  /\ trip = [NoTrip EXCEPT !.stage = "off"]

\* setSessionData(data); a second call is made while the first is suspended
OverlapStart(s) ==
  \E data \in OverlapData :
    /\ \A t \in Slots : t < s => ~Settled(calls[t])
    /\ Begin(s, "setSessionData", data, setSessionDataCall(Idle, data))
    /\ storage' = [storage EXCEPT ![currentOrigin] = EmptyStore]

OverlapNext ==
  \E s \in Slots :
    \/ OverlapStart(s)
    \/ OriginsRespond(s)
    \/ OriginsReject(s)
    \/ RelayAnswer(s)
    \/ RelayResolve(s)
    \/ RelayTimeout(s)
    \/ GetCookiesRespond(s)
    \/ ClearCookiesRespond(s)
    \/ SetCookiesRespond(s)
    \/ CookiesReject(s)

OverlapSpec == OverlapInit /\ [][OverlapNext]_vars

-----------------------------------------------------------------------------
(* Properties of the active-session cache (SessionSpec).                   *)

\* C4: immediately after defineSession({id, ...}) the returned record has
\* hydrated = false and getActiveSession(id) returns that record, whatever
\* the cache held before.
C4_DefineSessionRegistered ==
  lastOp.name = "defineSession" =>
    /\ ret.hydrated = FALSE
    /\ ret.id = lastOp.id
    /\ getActiveSession(activeSessions, lastOp.id) = ret

\* defineSession has just run on a cache that held a hydrated session
\* under another id
C4_Witness ==
  /\ lastOp.name = "defineSession"
  /\ \E id \in DOMAIN activeSessions : id # lastOp.id /\ activeSessions[id].hydrated

\* C5: clearActiveSessions() keeps the set of cached ids, leaves every
\* cached session with hydrated = false, and keeps id, setup, validate,
\* cookies and localStorage of every session.
C5_SoftReset ==
  [][(nops' = nops + 1 /\ lastOp'.name = "clearActiveSessions") =>
       /\ DOMAIN activeSessions' = DOMAIN activeSessions
       /\ \A id \in DOMAIN activeSessions :
            /\ activeSessions'[id].hydrated = FALSE
            /\ activeSessions'[id].id = activeSessions[id].id
            /\ activeSessions'[id].setup = activeSessions[id].setup
            /\ activeSessions'[id].validate = activeSessions[id].validate
            /\ activeSessions'[id].cookies = activeSessions[id].cookies
            /\ activeSessions'[id].localStorage = activeSessions[id].localStorage]_vars

\* clearActiveSessions has just run on a cache with a session that had been
\* hydrated (its data is stored) and with one that had not
C5_Witness ==
  /\ lastOp.name = "clearActiveSessions"
  /\ \E id \in DOMAIN activeSessions :
       ~activeSessions[id].hydrated /\ activeSessions[id].cookies # Null
  /\ \E id \in DOMAIN activeSessions : activeSessions[id].cookies = Null

\* C6: after clearAllSavedSessions() the active-session cache holds no
\* session record, and once the call has resolved the session registry has
\* deleted all persisted records.
C6_FullRemoval ==
  lastOp.name = "clearAllSavedSessions" =>
    /\ DOMAIN activeSessions = {}
    /\ \A s \in Slots :
         (calls[s].op = "clearAllSavedSessions" /\ calls[s].phase = "done")
           => savedSessions = {}

-----------------------------------------------------------------------------
(* Properties of the storage and cookie operations.                        *)

\* the call in slot s has resolved
Resolved(s, op) ==
  calls[s].op = op /\ calls[s].phase = "done" /\ ~calls[s].err

\* the normalized origin an entry of a storage list denotes
EntryOrigin(e) ==
  IF "origin" \in DOMAIN e /\ e.origin # CurrentOriginSpec
  THEN LocationOrigin(e.origin) ELSE currentOrigin

ListOrigins(list) == {EntryOrigin(list[i]) : i \in 1..Len(list)}

\* the key/value pairs a storage list gives for origin o
ListValue(list, o) ==
  IF \E i \in 1..Len(list) : EntryOrigin(list[i]) = o /\ "value" \in DOMAIN list[i]
  THEN LET i == CHOOSE j \in 1..Len(list) :
                  EntryOrigin(list[j]) = o /\ "value" \in DOMAIN list[j]
       IN list[i].value
  ELSE EmptyMap

\* C1: after setSessionData(data) has resolved, every origin that the
\* registry knows, is the current origin, or is mentioned in data holds in
\* localStorage and sessionStorage exactly the key/value pairs data gives
\* for it, and nothing when data does not mention it.
C1_NoStaleStorage ==
  \A s \in Slots :
    Resolved(s, "setSessionData") =>
      LET data == calls[s].data
      IN \A o \in registry \cup {currentOrigin}
                  \cup ListOrigins(data.localStorage) \cup ListOrigins(data.sessionStorage) :
           /\ storage[o].localStorage = ListValue(data.localStorage, o)
           /\ storage[o].sessionStorage = ListValue(data.sessionStorage, o)

\* the origins of the relay request the call awaits
BatchOrigins(c) ==
  IF c.relay = "set" THEN {c.batch[i].origin : i \in 1..Len(c.batch)}
  ELSE SeqToSet(c.batch)

\* C7: while the current origin is https, no relay request of any
\* operation carries an http target origin.
C7_NoMixedContextRelay ==
  \A s \in Slots :
    (calls[s].st = "relay" /\ StartsWithHttps(currentOrigin)) =>
      \A o \in BatchOrigins(calls[s]) : ~StartsWithHttp(o)

\* C3: in setSessionData the storage write of data is issued only when
\* clearCurrentSessionData has completed (current-origin wipe, storage
\* clear, cookie clear); 'set:cookies' is issued only when the storage
\* write and 'clear:cookies' have completed; and the cookies of data are in
\* the jar when the call has resolved.
C3_ClearThenSet ==
  \A s \in Slots :
    calls[s].op = "setSessionData" =>
      /\ calls[s].phase \in {"set", "cookies", "done"} =>
           {<<"clear", "wipe">>, <<"clear", "st">>, <<"clear", "ck">>} \subseteq calls[s].done
      /\ calls[s].phase \in {"cookies", "done"} =>
           {<<"set", "st">>, <<"set", "ck">>} \subseteq calls[s].done
      /\ Resolved(s, "setSessionData") =>
           \A n \in DOMAIN calls[s].data.cookies :
             n \in DOMAIN cookies /\ cookies[n] = calls[s].data.cookies[n]

\* setSessionData has resolved after writing through the relay, with
\* cookies in data and a cookie in the jar before
C3_Witness ==
  \E s \in Slots :
    /\ Resolved(s, "setSessionData")
    /\ DOMAIN calls[s].data.cookies # {}
    /\ Len(calls[s].options) > 1
    /\ Len(calls[s].data.localStorage) > 0

\* the entries of a results list for origin o
ResultsFor(list, o) == {i \in 1..Len(list) : list[i].origin = o}

\* C8: with an https current origin, getStorage({origin: '*'}) resolves with
\* the current origin's non-empty storage and with no entry for an http
\* origin; the relay request it awaits holds no http origin, so that no
\* http origin of the registry can make the call time out.
C8_MixedContextRead ==
  \A s \in Slots :
    (calls[s].op = "getStorage" /\ calls[s].arg = StarSpec
       /\ StartsWithHttps(currentOrigin)) =>
      /\ \A o \in calls[s].pending : ~StartsWithHttp(o)
      /\ Resolved(s, "getStorage") =>
           \A kind \in {"localStorage", "sessionStorage"} :
             /\ \A i \in 1..Len(calls[s].results[kind]) :
                  ~StartsWithHttp(calls[s].results[kind][i].origin)
             /\ ~IsEmptyObj(storage[currentOrigin][kind]) =>
                  \E i \in ResultsFor(calls[s].results[kind], currentOrigin) :
                    calls[s].results[kind][i].value = storage[currentOrigin][kind]

\* getStorage({origin: '*'}) has resolved on an https origin with non-empty
\* storage, the registry reporting an http origin that has storage too
C8_Witness ==
  \E s \in Slots :
    /\ Resolved(s, "getStorage")
    /\ calls[s].arg = StarSpec
    /\ StartsWithHttps(currentOrigin)
    /\ ~IsEmptyObj(storage[currentOrigin].localStorage)
    /\ \E o \in registry : StartsWithHttp(o) /\ ~IsEmptyObj(storage[o].localStorage)
    /\ \E o \in registry : o # currentOrigin /\ StartsWithHttps(o)

NoDuplicates(list) ==
  \A i, j \in 1..Len(list) : list[i] = list[j] => i = j

\* C9: the origin list of getAllHtmlOrigins and of mapOrigins('*') holds no
\* origin twice, whatever the registry reports, the current origin included.
C9_NoDuplicateOrigins ==
  \A s \in Slots :
    /\ NoDuplicates(calls[s].origins)
    /\ \A i \in 1..Len(calls[s].origins) :
         calls[s].origins[i] = LocationOrigin(calls[s].origins[i])

\* a call holds the origin list, the registry reports the current origin
\* and another one
C9_Witness ==
  \E s \in Slots :
    /\ currentOrigin \in registry
    /\ Len(calls[s].origins) = 2
    /\ SeqToSet(calls[s].origins) = registry

\* C10: the origin options of a setStorage call that has not been rejected
\* hold every normalized origin at most once; when the input has a localStorage entry and a
\* sessionStorage entry for the same normalized origin, however written,
\* the one option of that origin carries both.
C10_MergeLaw ==
  \A s \in Slots :
    (calls[s].op = "setStorage" /\ ~calls[s].err) =>
      LET opts == calls[s].options
          in == calls[s].arg
      IN /\ NoDuplicates([i \in 1..Len(opts) |-> opts[i].origin])
         /\ \A i \in 1..Len(opts) : opts[i].origin = LocationOrigin(opts[i].origin)
         /\ \A o \in ListOrigins(in.localStorage) \cap ListOrigins(in.sessionStorage) :
              \E i \in 1..Len(opts) :
                /\ opts[i].origin = o
                /\ {"localStorage", "sessionStorage"} \subseteq DOMAIN opts[i]

\* setStorage has dispatched one option for two entries of the same origin
\* that the input writes differently
C10_Witness ==
  \E s \in Slots :
    /\ calls[s].op = "setStorage"
    /\ Len(calls[s].arg.localStorage) = 1
    /\ Len(calls[s].arg.sessionStorage) = 1
    /\ LET l == calls[s].arg.localStorage[1]
           x == calls[s].arg.sessionStorage[1]
       IN /\ EntryOrigin(l) = EntryOrigin(x)
          /\ "origin" \in DOMAIN l \cap DOMAIN x
          /\ l.origin # x.origin
    /\ Len(calls[s].options) = 1

-----------------------------------------------------------------------------
(* The round trip (TripSpec).                                              *)

\* C2: when setSessionData(d) has resolved, d being the data that
\* getCurrentSessionData() returned before clearCurrentSessionData() ran,
\* localStorage and sessionStorage of every origin that appears in d and
\* the cookies are what they were when d was captured.
C2_RoundTrip ==
  \A s \in Slots :
    (Resolved(s, "setSessionData") /\ trip.stage = "restoring") =>
      /\ \A o \in ListOrigins(trip.data.localStorage)
                  \cup ListOrigins(trip.data.sessionStorage) :
           storage[o] = trip.storage[o]
      /\ cookies = trip.cookies

\* the restore has resolved; the captured data holds storage of the current
\* origin and of a relayed origin, and a cookie
C2_Witness ==
  \E s \in Slots :
    /\ Resolved(s, "setSessionData")
    /\ trip.stage = "restoring"
    /\ currentOrigin \in ListOrigins(trip.data.localStorage)
    /\ \E o \in ListOrigins(trip.data.sessionStorage) : o # currentOrigin
    /\ DOMAIN trip.data.cookies # {}

-----------------------------------------------------------------------------
(* Idempotence of setStorage (TwiceSpec).                                  *)

\* C11: when setStorage(options, clearAll) has resolved for the second time
\* in a row, localStorage and sessionStorage of every origin are what the
\* first call left.
C11_SetStorageIdempotent ==
  \A s \in Slots :
    (trip.stage = "second" /\ Resolved(s, "setStorage")) =>
      \A o \in Origins : storage[o] = trip.storage[o]

\* the second call has resolved; it wrote the current origin and relayed a
\* write without clear to an origin whose storage held another key
C11_Witness ==
  \E s \in Slots :
    /\ trip.stage = "second"
    /\ Resolved(s, "setStorage")
    /\ \E i \in 1..Len(calls[s].options) : calls[s].options[i].origin = currentOrigin
    /\ \E i \in 1..Len(calls[s].options) :
         LET opt == calls[s].options[i]
         IN /\ opt.origin # currentOrigin
            /\ "localStorage" \in DOMAIN opt
            /\ "value" \in DOMAIN opt.localStorage
            /\ ~Truthy(opt.localStorage, "clear")
            /\ DOMAIN storage[opt.origin].localStorage = {"k1", "k2"}

-----------------------------------------------------------------------------
(* Further properties of the storage operations (Spec).                    *)

\* C12: no relay request that a call awaits has the current document
\* origin among its target origins.
C12_CurrentOriginNotRelayed ==
  \A s \in Slots :
    calls[s].st = "relay" =>
      /\ currentOrigin \notin BatchOrigins(calls[s])
      /\ currentOrigin \notin calls[s].pending

\* a write is being relayed whose origin options held one for the current
\* origin, which was written synchronously
C12_Witness ==
  \E s \in Slots :
    /\ calls[s].st = "relay"
    /\ calls[s].relay = "set"
    /\ Len(calls[s].batch) > 0
    /\ \E i \in 1..Len(calls[s].options) : calls[s].options[i].origin = currentOrigin

-----------------------------------------------------------------------------
(* The relay's round-trips (RelaySpec).                                    *)

\* C13: within the batch of a relay request, at most one round-trip to an
\* https origin is under way at any time: the next one begins only when the
\* one before has ended or the request has timed out.
C13_SecureRoundTripsSerial ==
  \A s \in Slots :
    \A a, b \in calls[s].active :
      (StartsWithHttps(a) /\ StartsWithHttps(b)) => a = b

\* the round-trip to an https origin is under way while another https
\* origin of the batch has not been relayed yet
C13_Witness ==
  \E s \in Slots :
    /\ calls[s].st = "relay"
    /\ \E a \in calls[s].active : StartsWithHttps(a)
    /\ \E b \in calls[s].pending \ calls[s].active : StartsWithHttps(b)

\* C14: a relay request that ends while an origin of its batch has not
\* answered ends in a failure, and the call that awaits it rejects without
\* a result and stays rejected; a getStorage call goes on after the relay
\* only with an answer of every origin of the batch.
C14_RelayTimeoutReachesCaller ==
  [][\A s \in Slots :
       /\ (calls[s].st = "relay" /\ calls[s].pending # {} /\ calls'[s].st # "relay") =>
            /\ calls'[s].err
            /\ calls'[s].st = "failed"
            /\ calls'[s].phase # "done"
            /\ calls'[s].results = EmptyResults
       /\ (calls[s].err /\ calls'[s].op # "idle") =>
            calls'[s].err /\ calls'[s].phase # "done"
       /\ (calls[s].st = "relay" /\ calls[s].relay = "get" /\ calls'[s].st = "done") =>
            \A o \in SeqToSet(calls[s].batch) :
              \E i \in 1..Len(calls[s].got) : calls[s].got[i][1] = o]_vars

\* getStorage for an origin with stored data has rejected: the relay, its
\* only request, timed out
C14_Witness ==
  \E s \in Slots :
    /\ calls[s].op = "getStorage"
    /\ calls[s].arg = UrlCLogin
    /\ calls[s].err
    /\ calls[s].st = "failed"
    /\ ~IsEmptyObj(storage[OriginC].localStorage)

\* C15: a getStorage call whose argument is not an object (null, a string,
\* a number) has failed when it returns control: it awaits no registry
\* query and no relay request, holds no origins and no results, and the
\* step that started it changed nothing of the browser or the session cache.
C15_GetStorageRejectsNonObject ==
  [][\A s \in Slots :
       (calls'[s].op = "getStorage"
          /\ calls'[s].input.type \in {"null", "string", "number"}) =>
         /\ calls'[s].err
         /\ calls'[s].st = "none"
         /\ calls'[s].ck = "none"
         /\ calls'[s].relay = "none"
         /\ calls'[s].pending = {}
         /\ calls'[s].origins = <<>>
         /\ calls'[s].results = EmptyResults
         /\ UNCHANGED <<currentOrigin, registry, storage, cookies>>
         /\ UNCHANGED <<activeSessions, savedSessions>>]_vars

\* getStorage(null) has failed on a document with stored data, the registry
\* reporting other origins
C15_Witness ==
  \E s \in Slots :
    /\ calls[s].op = "getStorage"
    /\ calls[s].input.type = "null"
    /\ calls[s].err
    /\ ~IsEmptyObj(storage[currentOrigin].localStorage)
    /\ registry \ {currentOrigin} # {}

\* how far a call's storage branch and cookie branch have come: the phase
\* of the operation, then the request awaited in it
PhaseRank(c) ==
  CASE c.phase \in {"run", "clear"} -> 1
    [] c.phase = "origins" -> 2
    [] c.phase = "set" -> 3
    [] c.phase = "cookies" -> 4
    [] c.phase = "done" -> 5
    [] OTHER -> 0

StRank(c) ==
  PhaseRank(c) * 10
    + (CASE c.st \in {"origins", "clearSession"} -> 1
         [] c.st = "relay" -> 2
         [] c.st \in {"done", "failed"} -> 3
         [] OTHER -> 0)

CkRank(c) ==
  PhaseRank(c) * 10
    + (CASE c.ck \in {"get", "clearAll", "set"} -> 1
         [] c.ck = "clear" -> 2
         [] c.ck \in {"done", "failed"} -> 3
         [] OTHER -> 0)

\* C16: a call never comes back to a request it has issued (each place
\* issues its backend or registry request at most once); a request that
\* rejects makes the call reject, and the call stays rejected and issues
\* nothing more on that branch; the registry query is left only with the
\* registry's answer or with a failure, and a getStorage call whose storage
\* branch has failed awaits no relay request and holds no result.
C16_BackendFailurePropagates ==
  [][\A s \in Slots :
       calls'[s].op # "idle" =>
         /\ (calls[s].op # "idle") =>
              /\ StRank(calls'[s]) >= StRank(calls[s])
              /\ CkRank(calls'[s]) >= CkRank(calls[s])
              /\ (<<calls'[s].phase, calls'[s].st>> # <<calls[s].phase, calls[s].st>>)
                   => StRank(calls'[s]) > StRank(calls[s])
              /\ (<<calls'[s].phase, calls'[s].ck>> # <<calls[s].phase, calls[s].ck>>)
                   => CkRank(calls'[s]) > CkRank(calls[s])
         /\ (calls'[s].st = "failed" \/ calls'[s].ck = "failed") => calls'[s].err
         /\ calls[s].err => (calls'[s].err /\ calls'[s].phase = calls[s].phase)
         /\ calls[s].st = "failed" => calls'[s].st = "failed"
         /\ calls[s].ck = "failed" => calls'[s].ck = "failed"
         /\ (calls[s].st = "origins"
               /\ <<calls'[s].phase, calls'[s].st>> # <<calls[s].phase, calls[s].st>>)
              => (calls'[s].st = "failed" \/ Len(calls'[s].origins) > 0)
         /\ (calls'[s].op = "getStorage" /\ calls'[s].st = "failed") =>
              /\ calls'[s].relay = "none"
              /\ calls'[s].pending = {}
              /\ calls'[s].results = EmptyResults]_vars

\* getStorage({origin: '*'}) has rejected with the registry's failure: the
\* registry holds an origin other than the current one, and no relay
\* request of this call could have timed out
C16_Witness ==
  \E s \in Slots :
    /\ calls[s].op = "getStorage"
    /\ calls[s].arg = StarSpec
    /\ calls[s].err
    /\ calls[s].st = "failed"
    /\ StartsWithHttps(currentOrigin)
    /\ registry \ {currentOrigin} # {}
    /\ \A o \in registry : o # currentOrigin => StartsWithHttp(o)

\* the entries of a storage list that denote the current origin and give a value
CurrentEntries(list) ==
  {i \in 1..Len(list) : EntryOrigin(list[i]) = currentOrigin /\ "value" \in DOMAIN list[i]}

\* C17: as soon as a setStorage call awaits its relay request, and from
\* then on whether the relay answers, fails or times out, the current
\* origin's storage holds the values the call gives for it (and nothing
\* else of a kind the call clears); as soon as a getStorage call awaits its
\* relay request, its results hold the current origin's storage.
C17_CurrentOriginFirst ==
  \A s \in Slots :
    /\ calls[s].op = "setStorage" =>
         /\ \A kind \in {"localStorage", "sessionStorage"} :
              \A i \in CurrentEntries(calls[s].arg[kind]) :
                LET value == calls[s].arg[kind][i].value
                IN \A k \in DOMAIN value :
                     /\ k \in DOMAIN storage[currentOrigin][kind]
                     /\ storage[currentOrigin][kind][k] = value[k]
         /\ \A i \in 1..Len(calls[s].options) :
              \A kind \in DOMAIN calls[s].options[i] \cap {"localStorage", "sessionStorage"} :
                LET inst == calls[s].options[i][kind]
                IN (calls[s].options[i].origin = currentOrigin /\ Truthy(inst, "clear")) =>
                     storage[currentOrigin][kind] =
                       (IF "value" \in DOMAIN inst THEN inst.value ELSE EmptyMap)
    /\ (calls[s].op = "getStorage" /\ calls[s].st = "relay") =>
         calls[s].results =
           currentOriginResults(calls[s].origins, currentOrigin, storage[currentOrigin])

\* setStorage has rejected because its relay request timed out, and it had
\* a value for the current origin, whose storage held another key
C17_Witness ==
  \E s \in Slots :
    /\ calls[s].op = "setStorage"
    /\ calls[s].err
    /\ calls[s].st = "failed"
    /\ CurrentEntries(calls[s].arg.localStorage) # {}
    /\ DOMAIN storage[currentOrigin].localStorage = {"k1", "k2"}

\* the instruction of a storage kind that the origin options hold for origin o
OptionInstr(opts, o, kind) ==
  LET i == CHOOSE j \in 1..Len(opts) : opts[j].origin = o
  IN IF kind \in DOMAIN opts[i] THEN opts[i][kind] ELSE EmptyObj

\* the entry of a storage list for origin o, as setStorage reads it
ListInstr(list, o) ==
  LET i == CHOOSE j \in 1..Len(list) : EntryOrigin(list[j]) = o
  IN [f \in DOMAIN list[i] \cap {"value", "clear"} |-> list[i][f]]

\* C18: in the origin options setSessionData(data) dispatches, a known
\* origin (registry or current) without an entry in data's list of a
\* storage kind has the instruction clear: true for that kind, and a known
\* origin with an entry has the entry's own value and clear flag.
C18_ClearOnlyUnmentioned ==
  \A s \in Slots :
    (calls[s].op = "setSessionData" /\ calls[s].phase \in {"set", "cookies", "done"}
       /\ ~calls[s].err) =>
      \A kind \in {"localStorage", "sessionStorage"} :
        \A o \in SeqToSet(calls[s].origins) :
          /\ \E j \in 1..Len(calls[s].options) : calls[s].options[j].origin = o
          /\ OptionInstr(calls[s].options, o, kind) =
               IF o \in ListOrigins(calls[s].data[kind])
               THEN ListInstr(calls[s].data[kind], o)
               ELSE [f \in {"clear"} |-> TRUE]

\* C19: a getStorage call given no origin option (no argument, or an
\* object without origin) awaits neither the registry nor the relay; it has
\* resolved when it returns control, with the current origin's non-empty
\* localStorage and sessionStorage and nothing else, the origin listed at
\* most once for each kind.
C19_DefaultCurrentOrigin ==
  \A s \in Slots :
    (calls[s].op = "getStorage"
       /\ calls[s].input.type \in {"undefined", "object"}
       /\ "origin" \notin DOMAIN calls[s].input.props) =>
      /\ calls[s].st \notin {"origins", "relay", "failed"}
      /\ calls[s].relay = "none"
      /\ Resolved(s, "getStorage")
      /\ \A kind \in {"localStorage", "sessionStorage"} :
           calls[s].results[kind] =
             IF IsEmptyObj(storage[currentOrigin][kind]) THEN <<>>
             ELSE <<[origin |-> currentOrigin, value |-> storage[currentOrigin][kind]]>>

\* getStorage({}) has resolved with the current origin's localStorage,
\* while the registry reports another origin that has stored data
C19_Witness ==
  \E s \in Slots :
    /\ Resolved(s, "getStorage")
    /\ calls[s].input = JsValue("object", EmptyObj)
    /\ Len(calls[s].results.localStorage) = 1
    /\ \E o \in registry \ {currentOrigin} : ~IsEmptyObj(storage[o].localStorage)

-----------------------------------------------------------------------------
(* The session cache under interleaving (ConcSpec).                        *)

\* C20: whatever asynchronous call is suspended, no step removes an id from
\* the active-session cache, every record is cached under its own id (an id
\* is a key of the cache, so it is there once), defineSession leaves its
\* record in the cache, and the steps of the asynchronous calls leave the
\* cache as it is.
C20_CacheMutationsAtomic ==
  [][/\ DOMAIN activeSessions \subseteq DOMAIN activeSessions'
     /\ \A id \in DOMAIN activeSessions' : activeSessions'[id].id = id
     /\ (nops' = nops + 1 /\ lastOp'.name = "defineSession") =>
          /\ lastOp'.id \in DOMAIN activeSessions'
          /\ activeSessions'[lastOp'.id] = ret'
     /\ nops' = nops => activeSessions' = activeSessions]_vars

\* both session ids have been defined while a setSessionData call was
\* suspended, and the call still awaits a relay answer
C20_Witness ==
  /\ DOMAIN activeSessions = SessionIds
  /\ lastOp.name = "defineSession"
  /\ \E s \in Slots :
       /\ calls[s].op = "setSessionData"
       /\ calls[s].st = "relay"
       /\ calls[s].pending # {}

-----------------------------------------------------------------------------
(* Redefining a session (SessionSpec).                                     *)

\* C22: defineSession with an id that is already cached puts a fresh record
\* under that id (hydrated = false, cookies and localStorage null, setup and
\* validate as in the record it returns, which is built from the new
\* options), keeps the set of cached ids, and leaves the record of every
\* other id as it was.
C22_RedefineReplaces ==
  [][(/\ nops' = nops + 1
      /\ lastOp'.name = "defineSession"
      /\ lastOp'.id \in DOMAIN activeSessions) =>
       /\ DOMAIN activeSessions' = DOMAIN activeSessions
       /\ activeSessions'[lastOp'.id] =
            [id |-> lastOp'.id, cookies |-> Null, localStorage |-> Null,
             setup |-> ret'.setup, hydrated |-> FALSE, validate |-> ret'.validate]
       /\ \A id \in DOMAIN activeSessions \ {lastOp'.id} :
            activeSessions'[id] = activeSessions[id]]_vars

\* defineSession has just run for an id whose cached record was hydrated
\* and had another setup and another validate function, while the cache
\* holds a session under the other id
C22_Witness ==
  /\ lastOp.name = "defineSession"
  /\ lastOp.before # Null
  /\ lastOp.before.hydrated
  /\ lastOp.before.setup # activeSessions[lastOp.id].setup
  /\ lastOp.before.validate # activeSessions[lastOp.id].validate
  /\ DOMAIN activeSessions = SessionIds

-----------------------------------------------------------------------------
(* The batch handed to the relay.                                          *)

\* C21: a call that awaits the relay has handed it at least one origin:
\* getStorage and setStorage issue no relay request for an empty batch.
C21_RelayBatchNonEmpty ==
  \A s \in Slots :
    (calls[s].op \in {"getStorage", "setStorage"} /\ calls[s].st = "relay")
      => Len(calls[s].batch) > 0

-----------------------------------------------------------------------------
(* Overlapping restores (OverlapSpec).                                     *)

\* the browser holds the cookies and the storage of data, and nothing else
BrowserHolds(data) ==
  /\ cookies = data.cookies
  /\ \A o \in Origins :
       /\ storage[o].localStorage = ListValue(data.localStorage, o)
       /\ storage[o].sessionStorage = ListValue(data.sessionStorage, o)

\* C23: when two overlapping setSessionData calls have both resolved, the
\* cookies and the storage of every origin are those of the data of one of
\* the two calls, not a mixture.
C23_OneOfTheTwo ==
  (\A s \in Slots : Resolved(s, "setSessionData")) =>
    \E s \in Slots : BrowserHolds(calls[s].data)

====
